---------------------------- MODULE Spec2Model ----------------------------
(***************************************************************************)
(* A model of c20web: the request parser, the resource resolver, the       *)
(* response builder and the connection handler of src/src/lib.rs.          *)
(*                                                                         *)
(* Strings and buffers are sequences of bytes (0..255), so that slicing,   *)
(* UTF-8 decoding, substring replacement and decimal formatting are        *)
(* computed the way the code computes them.  Rust indices are 0-based;     *)
(* the sequences here are 1-based, and the cursors keep the Rust values.   *)
(***************************************************************************)
EXTENDS Integers, Sequences, FiniteSets, TLC

(***************************************************************************)
(* Bytes the code names.                                                   *)
(***************************************************************************)
\* b' '
SP == 32
\* b'\r'
CR == 13
\* b'\n'
LF == 10
\* '/'
Slash == 47
\* '.'
Dot == 46
\* the zero byte vec![0u8; n] fills the buffer with
Nul == 0

(***************************************************************************)
(* Bounds of the model.                                                    *)
(***************************************************************************)
\* longest buffer handed to Request::parse on its own
MaxBufLen == 5
\* longest body of a Response handed to Response::to_vec on its own
MaxBodyLen == 2
\* longest resource handed to ResourcePath on its own
MaxResourceLen == 5
\* the two request_max_bytes settings the handler runs with, besides 0: one
\* below and one above the length of a request line
SmallMaxBytes == 8
LargeMaxBytes == 24
\* the connections that reach the listener
MaxConns == 3
\* the largest threads_max the settings may hold
MaxThreads == 2
\* the accepts that may fail
MaxAcceptErrors == 1

Min(a, b) == IF a <= b THEN a ELSE b

\* all sequences over S of length 0..n
RECURSIVE SeqsUpTo(_, _)
SeqsUpTo(S, n) ==
    IF n = 0 THEN {<<>>}
    ELSE LET shorter == SeqsUpTo(S, n - 1)
         IN  shorter \cup {Append(s, b) : s \in {t \in shorter : Len(t) = n - 1}, b \in S}

\* the bytes s[from..to) of Rust, from and to 0-based
Slice(s, from, to) == SubSeq(s, from + 1, to)

\* usize formatted by {} : decimal digits, no sign, no padding
RECURSIVE ToDec(_)
ToDec(n) ==
    IF n < 10 THEN <<48 + n>> ELSE ToDec(n \div 10) \o <<48 + (n % 10)>>

(***************************************************************************)
(* std::str::from_utf8 and its error.                                      *)
(***************************************************************************)
\* the length of the sequence a lead byte announces, 0 when it is no lead byte
Utf8Width(b) ==
    IF b < 128 THEN 1
    ELSE IF b >= 194 /\ b <= 223 THEN 2
    ELSE IF b >= 224 /\ b <= 239 THEN 3
    ELSE IF b >= 240 /\ b <= 244 THEN 4
    ELSE 0

\* whether byte b may stand at place k (2..4) of a sequence led by lead
Utf8Follows(lead, k, b) ==
    IF k = 2 /\ lead = 224 THEN b >= 160 /\ b <= 191
    ELSE IF k = 2 /\ lead = 237 THEN b >= 128 /\ b <= 159
    ELSE IF k = 2 /\ lead = 240 THEN b >= 144 /\ b <= 191
    ELSE IF k = 2 /\ lead = 244 THEN b >= 128 /\ b <= 143
    ELSE b >= 128 /\ b <= 191

\* how many bytes from place i on are a well-formed start of one sequence
RECURSIVE Utf8Good(_, _, _)
Utf8Good(s, i, k) ==
    IF k > Utf8Width(s[i]) THEN k - 1
    ELSE IF i + k - 1 > Len(s) THEN k - 1
    ELSE IF k > 1 /\ ~Utf8Follows(s[i], k, s[i + k - 1]) THEN k - 1
    ELSE Utf8Good(s, i, k + 1)

\* the place of the first byte from place i on that is not ASCII, Len(s) + 1
\* when there is none (the decoder runs over ASCII bytes without stopping)
NextNonAscii(s, i) ==
    LET high == {j \in i..Len(s) : s[j] >= 128}
    IN  IF high = {} THEN Len(s) + 1 ELSE CHOOSE j \in high : \A k \in high : j <= k

\* Utf8Error: valid_up_to (0-based), and error_len (0 for None: input ends
\* inside a sequence).  ok when the whole of s decodes.
RECURSIVE Utf8Check(_, _)
Utf8Check(s, from) ==
    LET i == NextNonAscii(s, from)
    IN  IF i > Len(s) THEN [ok |-> TRUE, valid_up_to |-> Len(s), error_len |-> 0]
        ELSE LET w == Utf8Width(s[i])
                 g == Utf8Good(s, i, 1)
             IN  IF w # 0 /\ g = w THEN Utf8Check(s, i + w)
                 ELSE IF w = 0
                 THEN [ok |-> FALSE, valid_up_to |-> i - 1, error_len |-> 1]
                 ELSE IF i + g - 1 = Len(s)
                 THEN [ok |-> FALSE, valid_up_to |-> i - 1, error_len |-> 0]
                 ELSE [ok |-> FALSE, valid_up_to |-> i - 1, error_len |-> g]

from_utf8(s) == Utf8Check(s, 1)

\* 'invalid utf-8 sequence of '
MsgInvalidUtf8A ==
    <<105, 110, 118, 97, 108, 105, 100, 32, 117, 116, 102, 45, 56, 32, 115, 101, 113, 117,
    101, 110, 99, 101, 32, 111, 102, 32>>
\* ' bytes from index '
MsgInvalidUtf8B ==
    <<32, 98, 121, 116, 101, 115, 32, 102, 114, 111, 109, 32, 105, 110, 100, 101, 120, 32>>
\* 'incomplete utf-8 byte sequence from index '
MsgIncompleteUtf8 ==
    <<105, 110, 99, 111, 109, 112, 108, 101, 116, 101, 32, 117, 116, 102, 45, 56, 32, 98, 121,
    116, 101, 32, 115, 101, 113, 117, 101, 110, 99, 101, 32, 102, 114, 111, 109, 32, 105, 110,
    100, 101, 120, 32>>

\* Display of Utf8Error
Utf8ErrorText(e) ==
    IF e.error_len = 0
    THEN MsgIncompleteUtf8 \o ToDec(e.valid_up_to)
    ELSE MsgInvalidUtf8A \o ToDec(e.error_len) \o MsgInvalidUtf8B \o ToDec(e.valid_up_to)

(***************************************************************************)
(* Response and Request.                                                   *)
(***************************************************************************)
\* 'text/html'
TextHtml ==
    <<116, 101, 120, 116, 47, 104, 116, 109, 108>>
\* 'text/plain'
TextPlain ==
    <<116, 101, 120, 116, 47, 112, 108, 97, 105, 110>>
\* 'image/jpeg'
ImageJpeg ==
    <<105, 109, 97, 103, 101, 47, 106, 112, 101, 103>>

\* Response::new: the default MIME type, the text as the body
Response_new(code, body) == [code |-> code, mime |-> TextHtml, body |-> body]

\* stand-ins where a record holds no Request or no Response
NoRequest == [method |-> <<>>, resource |-> <<>>, http_version |-> <<>>]
NoResponse == [code |-> 0, mime |-> <<>>, body |-> <<>>]

Ok(request) == [ok |-> TRUE, request |-> request, response |-> NoResponse]
Err(response) == [ok |-> FALSE, request |-> NoRequest, response |-> response]

(***************************************************************************)
(* Request::parse.                                                         *)
(***************************************************************************)
\* 'Malformed request line'
MsgMalformedLine ==
    <<77, 97, 108, 102, 111, 114, 109, 101, 100, 32, 114, 101, 113, 117, 101, 115, 116, 32,
    108, 105, 110, 101>>
\* 'Malformed method name: '
MsgMalformedMethod ==
    <<77, 97, 108, 102, 111, 114, 109, 101, 100, 32, 109, 101, 116, 104, 111, 100, 32, 110,
    97, 109, 101, 58, 32>>
\* 'Malformed resource name: '
MsgMalformedResource ==
    <<77, 97, 108, 102, 111, 114, 109, 101, 100, 32, 114, 101, 115, 111, 117, 114, 99, 101,
    32, 110, 97, 109, 101, 58, 32>>
\* 'Malformed http version: '
MsgMalformedVersion ==
    <<77, 97, 108, 102, 111, 114, 109, 101, 100, 32, 104, 116, 116, 112, 32, 118, 101, 114,
    115, 105, 111, 110, 58, 32>>

\* a plausible slip: only '\r' ends the request line
IsLineEndOnlyCR(b) == b = CR

\* the bytes that end the request line
IsLineEnd(b) == b = CR \/ b = LF

\* The scan loop, from the byte at 0-based index i - 1 on, with the cursors
\* found so far.  A cursor of 0 means "not found yet", as in the code.
RECURSIVE Scan(_, _, _, _)
Scan(buffer, i, end_method, end_resource) ==
    IF i > Len(buffer)
    THEN [index_end_method |-> end_method, index_end_resource |-> end_resource,
          index_end_line |-> 0]
    ELSE IF IsLineEnd(buffer[i])
    THEN [index_end_method |-> end_method, index_end_resource |-> end_resource,
          index_end_line |-> i - 1]
    ELSE IF buffer[i] = SP
    THEN IF end_method = 0 THEN Scan(buffer, i + 1, i - 1, end_resource)
         ELSE IF end_resource = 0 THEN Scan(buffer, i + 1, end_method, i - 1)
         ELSE Scan(buffer, i + 1, end_method, end_resource)
    ELSE Scan(buffer, i + 1, end_method, end_resource)

\* the three cursors after the loop
Cursors(buffer) == Scan(buffer, 1, 0, 0)

\* a plausible slip: the second cursor is not tested
MalformedNoResourceCheck(c) == c.index_end_line = 0 \/ c.index_end_method = 0

\* the test that rejects the request line
Malformed(c) ==
    c.index_end_line = 0 \/ c.index_end_resource = 0 \/ c.index_end_method = 0

parse(buffer) ==
    LET c == Cursors(buffer)
        method == Slice(buffer, 0, c.index_end_method)
        resource == Slice(buffer, c.index_end_method + 1, c.index_end_resource)
        http_version == Slice(buffer, c.index_end_resource + 1, c.index_end_line)
    IN  IF Malformed(c) THEN Err(Response_new(400, MsgMalformedLine))
        ELSE IF ~from_utf8(method).ok
        THEN Err(Response_new(400, MsgMalformedMethod \o Utf8ErrorText(from_utf8(method))))
        ELSE IF ~from_utf8(resource).ok
        THEN Err(Response_new(400,
                 MsgMalformedResource \o Utf8ErrorText(from_utf8(resource))))
        ELSE IF ~from_utf8(http_version).ok
        THEN Err(Response_new(400,
                 MsgMalformedVersion \o Utf8ErrorText(from_utf8(http_version))))
        ELSE Ok([method |-> method, resource |-> resource,
                 http_version |-> http_version])

(***************************************************************************)
(* Request::parse on its own: every buffer over a small alphabet.          *)
(***************************************************************************)
VARIABLES pBuffer, pCalled, pResult

pvars == <<pBuffer, pCalled, pResult>>

\* space, the two line ends, 'G', and the two bytes of U+00E9 (valid UTF-8
\* together and in this order, invalid alone or swapped)
ParseBytes == {SP, CR, LF, 71, 195, 169}

ParseBuffers == SeqsUpTo(ParseBytes, MaxBufLen)

ParseIdle == pBuffer = <<>> /\ pCalled = FALSE /\ pResult = Err(NoResponse)

ParseInit ==
    /\ pBuffer \in ParseBuffers
    /\ pCalled = FALSE
    /\ pResult = Err(NoResponse)

CallParse ==
    /\ ~pCalled
    /\ pCalled' = TRUE
    /\ pResult' = parse(pBuffer)
    /\ UNCHANGED pBuffer

(***************************************************************************)
(* Response::to_vec.                                                       *)
(***************************************************************************)
\* 'OK'
ReasonOK ==
    <<79, 75>>
\* 'Bad Request'
ReasonBadRequest ==
    <<66, 97, 100, 32, 82, 101, 113, 117, 101, 115, 116>>
\* 'Not Found'
ReasonNotFound ==
    <<78, 111, 116, 32, 70, 111, 117, 110, 100>>
\* 'Payload Too Large'
ReasonTooLarge ==
    <<80, 97, 121, 108, 111, 97, 100, 32, 84, 111, 111, 32, 76, 97, 114, 103, 101>>
\* 'Not Implemented'
ReasonNotImplemented ==
    <<78, 111, 116, 32, 73, 109, 112, 108, 101, 109, 101, 110, 116, 101, 100>>
\* 'HTTP Version Not Supported'
ReasonVersion ==
    <<72, 84, 84, 80, 32, 86, 101, 114, 115, 105, 111, 110, 32, 78, 111, 116, 32, 83, 117,
    112, 112, 111, 114, 116, 101, 100>>
\* 'Multiple Choices'
ReasonMultipleChoices ==
    <<77, 117, 108, 116, 105, 112, 108, 101, 32, 67, 104, 111, 105, 99, 101, 115>>

\* statics::HTTP_RESPONSE_TABLE: the reason phrases of the codes the model
\* uses; every other code has no entry
HTTP_RESPONSE_TABLE ==
    (200 :> ReasonOK) @@ (300 :> ReasonMultipleChoices) @@ (400 :> ReasonBadRequest)
    @@ (404 :> ReasonNotFound) @@ (413 :> ReasonTooLarge)
    @@ (501 :> ReasonNotImplemented) @@ (505 :> ReasonVersion)

\* ' Unknown'
MsgUnknown ==
    <<32, 85, 110, 107, 110, 111, 119, 110>>

\* "<code> <reason>", or "<code> Unknown" for a code with no entry
StatusText(code) ==
    IF code \in DOMAIN HTTP_RESPONSE_TABLE
    THEN ToDec(code) \o <<SP>> \o HTTP_RESPONSE_TABLE[code]
    ELSE ToDec(code) \o MsgUnknown

\* '{}'
Placeholder ==
    <<123, 125>>

\* "<!DOCTYPE html><html lang='en'><head><meta charset='utf-8'><title>{}</title></head><body><h1>{}</h1><p>{}</p></body></html>"
DefaultErrorPage ==
    <<60, 33, 68, 79, 67, 84, 89, 80, 69, 32, 104, 116, 109, 108, 62, 60, 104, 116, 109,
    108, 32, 108, 97, 110, 103, 61, 39, 101, 110, 39, 62, 60, 104, 101, 97, 100, 62, 60,
    109, 101, 116, 97, 32, 99, 104, 97, 114, 115, 101, 116, 61, 39, 117, 116, 102, 45, 56,
    39, 62, 60, 116, 105, 116, 108, 101, 62, 123, 125, 60, 47, 116, 105, 116, 108, 101,
    62, 60, 47, 104, 101, 97, 100, 62, 60, 98, 111, 100, 121, 62, 60, 104, 49, 62, 123,
    125, 60, 47, 104, 49, 62, 60, 112, 62, 123, 125, 60, 47, 112, 62, 60, 47, 98, 111,
    100, 121, 62, 60, 47, 104, 116, 109, 108, 62>>

\* the places (1-based) where pat occurs in s
Matches(s, pat) ==
    {i \in 1..(Len(s) - Len(pat) + 1) : SubSeq(s, i, i + Len(pat) - 1) = pat}

\* str::replacen for a non-empty pattern: the first n matches of pat in s,
\* found left to right without overlap, become rep; the search goes on
\* after each match, never into the replacement
RECURSIVE replacen(_, _, _, _)
replacen(s, pat, rep, n) ==
    IF n = 0 \/ Matches(s, pat) = {} THEN s
    ELSE LET at == CHOOSE i \in Matches(s, pat) : \A j \in Matches(s, pat) : i <= j
         IN  SubSeq(s, 1, at - 1) \o rep
             \o replacen(SubSeq(s, at + Len(pat), Len(s)), pat, rep, n - 1)

\* U+FFFD in UTF-8
ReplacementChar ==
    <<239, 191, 189>>

\* String::from_utf8_lossy: well-formed sequences are kept, every ill-formed
\* run (as Utf8Error measures it) becomes one U+FFFD
RECURSIVE Lossy(_, _)
Lossy(s, from) ==
    LET i == NextNonAscii(s, from)
    IN  IF i > Len(s) THEN SubSeq(s, from, Len(s))
        ELSE LET w == Utf8Width(s[i])
                 g == Utf8Good(s, i, 1)
             IN  SubSeq(s, from, i - 1)
                 \o (IF w # 0 /\ g = w
                     THEN SubSeq(s, i, i + w - 1) \o Lossy(s, i + w)
                     ELSE ReplacementChar \o Lossy(s, i + (IF g = 0 THEN 1 ELSE g)))

from_utf8_lossy(s) == Lossy(s, 1)

\* A file as the code sees it: whether it can be opened and read, and its
\* bytes.
NoFile == [readable |-> FALSE, content |-> <<>>]
File(content) == [readable |-> TRUE, content |-> content]

\* fs::read_to_string succeeds when the file can be read and is valid UTF-8
read_to_string_ok(file) == file.readable /\ from_utf8(file.content).ok

\* the template: error.html, or the built-in page when it cannot be read
error_page(error_html) ==
    IF read_to_string_ok(error_html) THEN error_html.content ELSE DefaultErrorPage

\* the codes whose body is replaced by the error page
IsErrorCode(code) == code < 200 \/ code >= 300

\* a plausible slip: the status text fills one placeholder only
render_error_page_once(template, status, body) ==
    replacen(replacen(template, Placeholder, status, 1),
             Placeholder, from_utf8_lossy(body), 1)

\* the two replacen calls on the template
render_error_page(template, status, body) ==
    replacen(replacen(template, Placeholder, status, 2),
             Placeholder, from_utf8_lossy(body), 1)

\* body_out
body_out(self, error_html) ==
    IF IsErrorCode(self.code)
    THEN render_error_page(error_page(error_html), StatusText(self.code), self.body)
    ELSE self.body

\* 'HTTP/1.1 '
WireHttp ==
    <<72, 84, 84, 80, 47, 49, 46, 49, 32>>
\* 'Content-Type: '
WireContentType ==
    <<67, 111, 110, 116, 101, 110, 116, 45, 84, 121, 112, 101, 58, 32>>
\* 'Content-Length: '
WireContentLength ==
    <<67, 111, 110, 116, 101, 110, 116, 45, 76, 101, 110, 103, 116, 104, 58, 32>>

\* a plausible slip: the length of the Response's own body is announced
announced_length_of_own_body(self, error_html) == Len(self.body)

\* the length the Content-Length header announces
announced_length(self, error_html) == Len(body_out(self, error_html))

\* the head: status line, Content-Type, Content-Length, blank line
head(self, error_html) ==
    WireHttp \o StatusText(self.code) \o <<CR, LF>>
    \o WireContentType \o self.mime \o <<59, CR, LF>>
    \o WireContentLength \o ToDec(announced_length(self, error_html)) \o <<59, CR, LF>>
    \o <<CR, LF>>

to_vec(self, error_html) == head(self, error_html) \o body_out(self, error_html)

(***************************************************************************)
(* Response::to_vec on its own: Responses of every kind, with every        *)
(* error.html of a small set.                                              *)
(***************************************************************************)
VARIABLES tResponse, tErrorHtml, tCalled, tOut

tvars == <<tResponse, tErrorHtml, tCalled, tOut>>

\* codes below, in and above [200, 300), with and without a reason phrase
ToVecCodes == {199, 200, 299, 300, 404, 413}

ToVecMimes == {TextHtml, ImageJpeg}

\* 'G', the two braces, CR and LF, and the two bytes of U+00E9
BodyBytes == {71, 123, 125, CR, LF, 195, 169}

ToVecBodies == SeqsUpTo(BodyBytes, MaxBodyLen)

\* error.html: absent, empty, without a placeholder, with one to four
\* placeholders, with braces around placeholders, and not UTF-8
ErrorHtmlFiles ==
    { NoFile,
      File(<<>>),
      File(<<71>>),
      File(<<123, 125>>),
      File(<<71, 123, 125, 71, 123, 125>>),
      File(<<123, 125, 123, 125, 123, 125>>),
      File(<<60, 123, 125, 62, 60, 123, 125, 62, 60, 123, 125, 62, 60, 123, 125, 62>>),
      File(<<123, 123, 125, 125, 123, 123, 125, 125, 123, 123, 125, 125>>),
      File(<<125, 123, 71, 123, 125>>),
      File(<<123, 125, 195>>) }

ToVecIdle ==
    tResponse = NoResponse /\ tErrorHtml = NoFile /\ tCalled = FALSE /\ tOut = <<>>

ToVecInit ==
    /\ tResponse \in [code : ToVecCodes, mime : ToVecMimes, body : ToVecBodies]
    /\ tErrorHtml \in ErrorHtmlFiles
    /\ tCalled = FALSE
    /\ tOut = <<>>

CallToVec ==
    /\ ~tCalled
    /\ tCalled' = TRUE
    /\ tOut' = to_vec(tResponse, tErrorHtml)
    /\ UNCHANGED <<tResponse, tErrorHtml>>

(***************************************************************************)
(* ResourcePath.                                                           *)
(***************************************************************************)

\* resource.replacen("/", "", 1)
strip_separator(resource) == replacen(resource, <<Slash>>, <<>>, 1)

\* ResourcePath::get_path
get_path(resource, webroot) == webroot \o <<Slash>> \o strip_separator(resource)

\* the pieces of a path between its separators, empty pieces included
RECURSIVE Segments(_)
Segments(path) ==
    LET seps == {i \in 1..Len(path) : path[i] = Slash}
    IN  IF seps = {} THEN <<path>>
        ELSE LET at == CHOOSE i \in seps : \A j \in seps : i <= j
             IN  <<SubSeq(path, 1, at - 1)>> \o Segments(SubSeq(path, at + 1, Len(path)))

\* Path::file_name: the last component, where repeated separators, a trailing
\* separator and "." pieces are no components; none when the path has no
\* component of its own or ends in ".."
file_name(path) ==
    LET normal == SelectSeq(Segments(path), LAMBDA seg : seg # <<>> /\ seg # <<Dot>>)
    IN  IF normal = <<>> \/ normal[Len(normal)] = <<Dot, Dot>>
        THEN [some |-> FALSE, name |-> <<>>]
        ELSE [some |-> TRUE, name |-> normal[Len(normal)]]

\* Path::extension: the part of the file name after its last '.', none when
\* the name has no '.' or only a leading one
extension(path) ==
    LET f == file_name(path)
        dots == {i \in 1..Len(f.name) : f.name[i] = Dot}
        last == CHOOSE i \in dots : \A j \in dots : j <= i
    IN  IF ~f.some \/ dots = {} \/ last = 1
        THEN [some |-> FALSE, ext |-> <<>>]
        ELSE [some |-> TRUE, ext |-> SubSeq(f.name, last + 1, Len(f.name))]

\* ResourcePath::get_extension: the empty string when there is no extension
get_extension(resource) ==
    IF extension(resource).some THEN extension(resource).ext ELSE <<>>

\* 'jpg'
ExtJpg ==
    <<106, 112, 103>>
\* 'html'
ExtHtml ==
    <<104, 116, 109, 108>>

\* statics::MIME_BY_EXTENSION: the entries the model uses
MIME_BY_EXTENSION == (ExtJpg :> ImageJpeg) @@ (ExtHtml :> TextHtml)

\* a plausible slip: an unknown extension falls back to the default of
\* Response::new
get_mime_html_default(resource) ==
    IF get_extension(resource) \in DOMAIN MIME_BY_EXTENSION
    THEN MIME_BY_EXTENSION[get_extension(resource)]
    ELSE TextHtml

\* ResourcePath::get_mime
get_mime(resource) ==
    IF get_extension(resource) \in DOMAIN MIME_BY_EXTENSION
    THEN MIME_BY_EXTENSION[get_extension(resource)]
    ELSE TextPlain

(***************************************************************************)
(* ResourcePath on its own: every resource over a small alphabet.          *)
(***************************************************************************)
VARIABLES rResource, rWebroot, rCalled, rPath, rMime

rvars == <<rResource, rWebroot, rCalled, rPath, rMime>>

\* '/', '.', 'j', 'p', 'g' and 'J'
ResourceBytes == {Slash, Dot, 106, 112, 103, 74}

Resources == SeqsUpTo(ResourceBytes, MaxResourceLen)

\* "w" and "/srv/w"
Webroots == {<<119>>, <<47, 115, 114, 118, 47, 119>>}

ResourceIdle ==
    rResource = <<>> /\ rWebroot = <<>> /\ rCalled = FALSE /\ rPath = <<>> /\ rMime = <<>>

ResourceInit ==
    /\ rResource \in Resources
    /\ rWebroot \in Webroots
    /\ rCalled = FALSE
    /\ rPath = <<>>
    /\ rMime = <<>>

CallResource ==
    /\ ~rCalled
    /\ rCalled' = TRUE
    /\ rPath' = get_path(rResource, rWebroot)
    /\ rMime' = get_mime(rResource)
    /\ UNCHANGED <<rResource, rWebroot>>

(***************************************************************************)
(* handle_connection, for one connection.                                  *)
(***************************************************************************)
\* 'GET'
GET ==
    <<71, 69, 84>>
\* 'HTTP/1.1'
HTTP_1_1 ==
    <<72, 84, 84, 80, 47, 49, 46, 49>>
\* 'This server only accepts GET requests.'
MsgOnlyGet ==
    <<84, 104, 105, 115, 32, 115, 101, 114, 118, 101, 114, 32, 111, 110, 108, 121, 32, 97,
    99, 99, 101, 112, 116, 115, 32, 71, 69, 84, 32, 114, 101, 113, 117, 101, 115, 116, 115,
    46>>
\* 'This server only speaks HTTP/1.1'
MsgOnlyHttp11 ==
    <<84, 104, 105, 115, 32, 115, 101, 114, 118, 101, 114, 32, 111, 110, 108, 121, 32, 115,
    112, 101, 97, 107, 115, 32, 72, 84, 84, 80, 47, 49, 46, 49>>
\* "The network stream didn't stay valid long enough for the server to read it: "
MsgStreamInvalid ==
    <<84, 104, 101, 32, 110, 101, 116, 119, 111, 114, 107, 32, 115, 116, 114, 101, 97, 109,
    32, 100, 105, 100, 110, 39, 116, 32, 115, 116, 97, 121, 32, 118, 97, 108, 105, 100, 32,
    108, 111, 110, 103, 32, 101, 110, 111, 117, 103, 104, 32, 102, 111, 114, 32, 116, 104,
    101, 32, 115, 101, 114, 118, 101, 114, 32, 116, 111, 32, 114, 101, 97, 100, 32, 105,
    116, 58, 32>>
\* Display of the io::Error of a failed read: 'Connection reset by peer (os error 104)'
IoTextReset ==
    <<67, 111, 110, 110, 101, 99, 116, 105, 111, 110, 32, 114, 101, 115, 101, 116, 32, 98,
    121, 32, 112, 101, 101, 114, 32, 40, 111, 115, 32, 101, 114, 114, 111, 114, 32, 49, 48,
    52, 41>>
\* Display of the io::Error of a failed fs::read: 'No such file or directory (os error 2)'
IoTextNotFound ==
    <<78, 111, 32, 115, 117, 99, 104, 32, 102, 105, 108, 101, 32, 111, 114, 32, 100, 105,
    114, 101, 99, 116, 111, 114, 121, 32, 40, 111, 115, 32, 101, 114, 114, 111, 114, 32,
    50, 41>>
\* 'error.html'
ErrorHtmlName ==
    <<101, 114, 114, 111, 114, 46, 104, 116, 109, 108>>

VARIABLES
    settings,        \* SETTINGS: webroot and request_max_bytes, each present or not
    disk,            \* the paths fs::read can read
    errorHtml,       \* the file error.html
    sent,            \* the bytes the peer sends
    pc,              \* where the handler stands
    buffer,          \* the boxed slice read into
    request_result,  \* what stream.read returned
    read_closed,     \* whether shutdown(Read) closed the read side
    parse_calls,     \* how often Request::parse ran
    target,          \* the path and MIME type of the file looked up, if one was
    response,        \* the Response determined
    file_reads,      \* the names of the files read, in order
    request_log,     \* the lines written to the "requests" log
    error_log,       \* what error! logged
    events,          \* the operations on the stream and the request log, in order
    wire             \* write's argument, its result and the bytes the connection accepted

hvars ==
    <<settings, disk, errorHtml, sent, pc, buffer, request_result, read_closed,
      parse_calls, target, response, file_reads, request_log, error_log, events, wire>>

Absent == [some |-> FALSE, value |-> 0]
Value(v) == [some |-> TRUE, value |-> v]

NoTarget == [looked_up |-> FALSE, path |-> <<>>, mime |-> <<>>]
NoWrite == [called |-> FALSE, ok |-> FALSE, offered |-> <<>>, accepted |-> <<>>]

\* the content of the file at a path of the disk: its own name
FileAt(path) == IF path \in disk THEN File(path) ELSE NoFile

\* vec![0u8; n]
RECURSIVE Zeros(_)
Zeros(n) == IF n = 0 THEN <<>> ELSE <<Nul>> \o Zeros(n - 1)

\* The counts one read may return: 0 when the peer closed without sending,
\* else any count from 1 to what fits, since the bytes may arrive in pieces.
ReadCounts(bytes, capacity) ==
    IF bytes = <<>> THEN {0} ELSE 1..Min(Len(bytes), capacity)

\* a plausible slip: a request of exactly request_max_bytes is let through
over_limit_strict(num_bytes, request_max_bytes) == num_bytes > request_max_bytes

\* the test of the size limit
over_limit(num_bytes, request_max_bytes) == num_bytes >= request_max_bytes

\* a plausible slip: the version is tested before the method
unsupported_version_first(request) ==
    IF request.http_version # HTTP_1_1
    THEN Response_new(505, MsgOnlyHttp11)
    ELSE IF request.method # GET
    THEN Response_new(501, MsgOnlyGet)
    ELSE NoResponse

\* the Response for a request the server does not support, NoResponse for
\* one it does
unsupported(request) ==
    IF request.method # GET
    THEN Response_new(501, MsgOnlyGet)
    ELSE IF request.http_version # HTTP_1_1
    THEN Response_new(505, MsgOnlyHttp11)
    ELSE NoResponse

\* the "match request_result" expression: the Response, whether the parser
\* ran, and the file looked up
analysis(result, buf, webroot, request_max_bytes) ==
    IF ~result.ok
    THEN [response |-> Response_new(400, MsgStreamInvalid \o IoTextReset),
          parsed |-> FALSE, target |-> NoTarget]
    ELSE IF over_limit(result.num_bytes, request_max_bytes)
    THEN [response |-> Response_new(413, <<>>), parsed |-> FALSE, target |-> NoTarget]
    ELSE LET parsed == parse(buf)
         IN  IF ~parsed.ok
             THEN [response |-> parsed.response, parsed |-> TRUE, target |-> NoTarget]
             ELSE IF unsupported(parsed.request) # NoResponse
             THEN [response |-> unsupported(parsed.request), parsed |-> TRUE,
                   target |-> NoTarget]
             ELSE LET path == get_path(parsed.request.resource, webroot)
                      mime == get_mime(parsed.request.resource)
                  IN  [response |->
                           IF FileAt(path).readable
                           THEN [code |-> 200, mime |-> mime,
                                 body |-> FileAt(path).content]
                           ELSE Response_new(404, IoTextNotFound),
                       parsed |-> TRUE,
                       target |-> [looked_up |-> TRUE, path |-> path, mime |-> mime]]

\* Request lines the peer may send: method SP resource SP version, ended by
\* CR LF or not ended.
HandlerMethods == {GET, <<71, 69>>}

\* "/i.jpg", "/i.JPG", "/i" and "/.jpg"
HandlerResources ==
    { <<47, 105, 46, 106, 112, 103>>, <<47, 105, 46, 74, 80, 71>>, <<47, 105>>,
      <<47, 46, 106, 112, 103>> }

\* "HTTP/1.1" and "HTTP/1.0"
HandlerVersions == {HTTP_1_1, <<72, 84, 84, 80, 47, 49, 46, 48>>}

RequestLine(method, resource, version, end) ==
    method \o <<SP>> \o resource \o <<SP>> \o version \o end

\* What the peer sends: the request lines above; a request followed by a
\* header, longer than the larger limit; requests with a token that is not
\* UTF-8, with a leading space, with no space, with a resource that has no
\* leading separator; and nothing at all.
SentBytes ==
    {RequestLine(m, r, v, e) :
        m \in HandlerMethods, r \in HandlerResources, v \in HandlerVersions,
        e \in {<<CR, LF>>, <<>>}}
    \cup
    { RequestLine(GET, <<47, 105>>, HTTP_1_1, <<CR, LF>>)
          \o <<72, 58, 32, 105, 105, 105, 105, 105, 105, 105, 105, 105, 13, 10, 13, 10>>,
      RequestLine(<<71, 195>>, <<47, 105>>, HTTP_1_1, <<CR, LF>>),
      RequestLine(GET, <<47, 169>>, HTTP_1_1, <<CR, LF>>),
      RequestLine(GET, <<47, 105>>, HTTP_1_1 \o <<195>>, <<CR, LF>>),
      <<SP>> \o RequestLine(GET, <<47, 105>>, HTTP_1_1, <<CR, LF>>),
      RequestLine(GET, <<105, 47, 105>>, HTTP_1_1, <<LF>>),
      GET \o <<CR, LF>>,
      <<>> }

\* "w"
HandlerWebroot ==
    <<119>>

\* every path a request of SentBytes can ask for
ServedPaths == {get_path(r, HandlerWebroot) : r \in HandlerResources \cup {<<105, 47, 105>>}}

\* an error.html with three placeholders
HandlerErrorHtml ==
    File(<<60, 123, 125, 62, 60, 123, 125, 62, 60, 123, 125, 62>>)

\* The counts one write may return for a non-empty buffer: anything from 1
\* to its length; the least, a middle and the full count stand for them.
WriteCounts(out) == {1, (Len(out) + 1) \div 2, Len(out)}

HandlerIdle ==
    /\ settings = [webroot |-> Absent, request_max_bytes |-> Absent]
    /\ disk = {}
    /\ errorHtml = NoFile
    /\ sent = <<>>
    /\ pc = "idle"
    /\ buffer = <<>>
    /\ request_result = [ok |-> FALSE, num_bytes |-> 0]
    /\ read_closed = FALSE
    /\ parse_calls = 0
    /\ target = NoTarget
    /\ response = NoResponse
    /\ file_reads = <<>>
    /\ request_log = <<>>
    /\ error_log = <<>>
    /\ events = <<>>
    /\ wire = NoWrite

\* The state when the pool hands the stream to handle_connection.  main
\* reads only threads_max and listen_addr from the settings, so webroot and
\* request_max_bytes may be missing, or hold what get::<String> and
\* get::<usize> cannot convert.
HandlerInit ==
    /\ settings \in [webroot : {Absent, Value(HandlerWebroot)},
                     request_max_bytes :
                         {Absent, Value(0), Value(SmallMaxBytes), Value(LargeMaxBytes)}]
    /\ disk \in {{}, ServedPaths}
    /\ errorHtml \in {NoFile, HandlerErrorHtml}
    /\ sent \in SentBytes
    /\ pc = "start"
    /\ buffer = <<>>
    /\ request_result = [ok |-> FALSE, num_bytes |-> 0]
    /\ read_closed = FALSE
    /\ parse_calls = 0
    /\ target = NoTarget
    /\ response = NoResponse
    /\ file_reads = <<>>
    /\ request_log = <<>>
    /\ error_log = <<>>
    /\ events = <<>>
    /\ wire = NoWrite

\* lib.rs 355-366: the settings are read; a missing value ends the handler
\* with an error! line and nothing else
Configure ==
    /\ pc = "start"
    /\ IF ~settings.webroot.some
       THEN pc' = "returned" /\ error_log' = Append(error_log, "webroot missing from config")
       ELSE IF ~settings.request_max_bytes.some
       THEN /\ pc' = "returned"
            /\ error_log' = Append(error_log, "request_max_bytes missing from config")
       ELSE pc' = "read" /\ UNCHANGED error_log
    /\ UNCHANGED <<settings, disk, errorHtml, sent, buffer, request_result, read_closed,
                   parse_calls, target, response, file_reads, request_log, events, wire>>

\* lib.rs 369-371: the buffer of request_max_bytes + 1 bytes, and one read
Read ==
    /\ pc = "read"
    /\ LET capacity == settings.request_max_bytes.value + 1
       IN  \/ /\ request_result' = [ok |-> FALSE, num_bytes |-> 0]
              /\ buffer' = Zeros(capacity)
           \/ \E n \in ReadCounts(sent, capacity) :
                  /\ request_result' = [ok |-> TRUE, num_bytes |-> n]
                  /\ buffer' = SubSeq(sent, 1, n) \o Zeros(capacity - n)
    /\ events' = Append(events, "read")
    /\ pc' = "shutdown"
    /\ UNCHANGED <<settings, disk, errorHtml, sent, read_closed, parse_calls, target,
                   response, file_reads, request_log, error_log, wire>>

\* lib.rs 379: shutdown(Shutdown::Read), its result dropped
ShutdownRead ==
    /\ pc = "shutdown"
    /\ read_closed' \in BOOLEAN
    /\ events' = Append(events, "shutdown")
    /\ pc' = "analyze"
    /\ UNCHANGED <<settings, disk, errorHtml, sent, buffer, request_result, parse_calls,
                   target, response, file_reads, request_log, error_log, wire>>

\* lib.rs 382-416: the Response is determined
Analyze ==
    /\ pc = "analyze"
    /\ LET a == analysis(request_result, buffer, settings.webroot.value,
                         settings.request_max_bytes.value)
       IN  /\ response' = a.response
           /\ parse_calls' = parse_calls + (IF a.parsed THEN 1 ELSE 0)
           /\ target' = a.target
           /\ file_reads' =
                  IF a.target.looked_up THEN Append(file_reads, a.target.path)
                  ELSE file_reads
    /\ events' = Append(events, "respond")
    /\ pc' = "log"
    /\ UNCHANGED <<settings, disk, errorHtml, sent, buffer, request_result, read_closed,
                   request_log, error_log, wire>>

\* lib.rs 420-426: the line of the "requests" log
LogRequest ==
    /\ pc = "log"
    /\ \E from \in {"peer address", "Unknown"} :
           request_log' = Append(request_log, [from |-> from, code |-> response.code])
    /\ events' = Append(events, "log")
    /\ pc' = "write"
    /\ UNCHANGED <<settings, disk, errorHtml, sent, buffer, request_result, read_closed,
                   parse_calls, target, response, file_reads, error_log, wire>>

\* a plausible slip: send returns on a write error, the flush not made
WriteReturningOnError ==
    /\ pc = "write"
    /\ LET out == to_vec(response, errorHtml)
       IN  \/ /\ wire' = [called |-> TRUE, ok |-> FALSE, offered |-> out,
                           accepted |-> <<>>]
              /\ error_log' = Append(error_log, "Write error")
              /\ events' = Append(events, "write")
              /\ pc' = "done"
           \/ /\ \E n \in WriteCounts(out) :
                     wire' = [called |-> TRUE, ok |-> TRUE, offered |-> out,
                              accepted |-> SubSeq(out, 1, n)]
              /\ events' = Append(events, "write")
              /\ pc' = "flush"
              /\ UNCHANGED error_log
    /\ file_reads' =
           IF IsErrorCode(response.code) THEN Append(file_reads, ErrorHtmlName)
           ELSE file_reads
    /\ UNCHANGED <<settings, disk, errorHtml, sent, buffer, request_result, read_closed,
                   parse_calls, target, response, request_log>>

\* lib.rs 221-226: to_vec, and one write
Write ==
    /\ pc = "write"
    /\ LET out == to_vec(response, errorHtml)
       IN  \/ /\ wire' = [called |-> TRUE, ok |-> FALSE, offered |-> out,
                           accepted |-> <<>>]
              /\ error_log' = Append(error_log, "Write error")
           \/ /\ \E n \in WriteCounts(out) :
                     wire' = [called |-> TRUE, ok |-> TRUE, offered |-> out,
                              accepted |-> SubSeq(out, 1, n)]
              /\ UNCHANGED error_log
    /\ file_reads' =
           IF IsErrorCode(response.code) THEN Append(file_reads, ErrorHtmlName)
           ELSE file_reads
    /\ events' = Append(events, "write")
    /\ pc' = "flush"
    /\ UNCHANGED <<settings, disk, errorHtml, sent, buffer, request_result, read_closed,
                   parse_calls, target, response, request_log>>

\* lib.rs 228-233: flush, which for a TcpStream does nothing and returns Ok;
\* then the stream is dropped
Flush ==
    /\ pc = "flush"
    /\ events' = Append(events, "flush")
    /\ pc' = "done"
    /\ UNCHANGED <<settings, disk, errorHtml, sent, buffer, request_result, read_closed,
                   parse_calls, target, response, file_reads, request_log, error_log,
                   wire>>

(***************************************************************************)
(* main and start_listening: the settings lock, the listener, the pool of  *)
(* threads_max workers, and handle_connection as each worker runs it.      *)
(***************************************************************************)
\* the connections that may arrive, in the order they arrive
Conns == 1..MaxConns

\* the workers a pool can have; ThreadPool::new(n) starts the first n
Workers == 1..MaxThreads

VARIABLES
    main_pc,         \* where main and start_listening stand
    SETTINGS,        \* the Config behind the RwLock
    lock,            \* the RwLock: its writer and the workers holding a read guard
    arrived,         \* how many connections have reached the listener
    peer,            \* what each connection's client does
    backlog,         \* the accept queue of the listening socket
    stream,          \* the stream the accept loop holds between accept and execute
    accept_errors,   \* how many accepts have failed
    failed_before,   \* whether an accept had failed before the last one that succeeded
    queue,           \* the jobs sent to the pool and not yet taken by a worker
    worker,          \* each worker: its place in the handler, its stream, the settings it saw
    started,         \* how many handlers have been started on each connection
    outcome          \* how the handler of each connection ended

dvars ==
    <<main_pc, SETTINGS, lock, arrived, peer, backlog, stream, accept_errors,
      failed_before, queue, worker, started, outcome>>

NoStream == 0

\* Config::default(): no key set
NoSettings == [threads_max |-> Absent, webroot |-> Absent, request_max_bytes |-> Absent]

\* What the merges of DEFAULT_CONFIG, web.toml and the command line can
\* leave in SETTINGS: threads_max missing or any count, webroot missing or
\* set, request_max_bytes set.
LoadedSettings ==
    [threads_max : {Absent} \cup {Value(n) : n \in 0..MaxThreads},
     webroot : {Absent, Value(HandlerWebroot)},
     request_max_bytes : {Value(SmallMaxBytes)}]

\* a worker thread waiting on the pool's channel
IdleWorker == [pc |-> "idle", stream |-> NoStream, seen |-> NoSettings]

\* the workers ThreadPool::new(threads_max) started
PoolWorkers ==
    IF main_pc \in {"accept", "submit"} THEN 1..SETTINGS.threads_max.value ELSE {}

DispatchIdle ==
    /\ main_pc = "off"
    /\ SETTINGS = NoSettings
    /\ lock = [writer |-> FALSE, readers |-> {}]
    /\ arrived = 0
    /\ peer = [c \in Conns |-> "absent"]
    /\ backlog = <<>>
    /\ stream = NoStream
    /\ accept_errors = 0
    /\ failed_before = FALSE
    /\ queue = <<>>
    /\ worker = [w \in Workers |-> IdleWorker]
    /\ started = [c \in Conns |-> 0]
    /\ outcome = [c \in Conns |-> "none"]

\* the process as main begins
DispatchInit ==
    /\ main_pc = "start"
    /\ SETTINGS = NoSettings
    /\ lock = [writer |-> FALSE, readers |-> {}]
    /\ arrived = 0
    /\ peer = [c \in Conns |-> "absent"]
    /\ backlog = <<>>
    /\ stream = NoStream
    /\ accept_errors = 0
    /\ failed_before = FALSE
    /\ queue = <<>>
    /\ worker = [w \in Workers |-> IdleWorker]
    /\ started = [c \in Conns |-> 0]
    /\ outcome = [c \in Conns |-> "none"]

\* main.rs 39-47: the write guard is taken, the settings are merged, and
\* threads_max and listen_addr are read; a missing one panics, which ends
\* the process
LoadSettings ==
    /\ main_pc = "start"
    /\ \E loaded \in LoadedSettings :
           /\ SETTINGS' = loaded
           /\ IF loaded.threads_max.some
              THEN main_pc' = "loaded" /\ lock' = [lock EXCEPT !.writer = TRUE]
              ELSE main_pc' = "exited" /\ UNCHANGED lock
    /\ UNCHANGED <<arrived, peer, backlog, stream, accept_errors, queue, worker, started,
                   outcome, failed_before>>

\* a plausible slip: the write guard is not scoped and lives as long as main
KeepWriteGuard ==
    /\ main_pc = "loaded"
    /\ main_pc' = "bind"
    /\ UNCHANGED <<SETTINGS, lock, arrived, peer, backlog, stream, accept_errors, queue,
                   worker, started, outcome, failed_before>>

\* main.rs 48-50: the block ends and drops the write guard; logging starts
ReleaseSettings ==
    /\ main_pc = "loaded"
    /\ lock' = [lock EXCEPT !.writer = FALSE]
    /\ main_pc' = "bind"
    /\ UNCHANGED <<SETTINGS, arrived, peer, backlog, stream, accept_errors, queue, worker,
                   started, outcome, failed_before>>

\* main.rs 76-83: bind, or exit(1)
Bind ==
    /\ main_pc = "bind"
    /\ main_pc' \in {"pool", "exited"}
    /\ UNCHANGED <<SETTINGS, lock, arrived, peer, backlog, stream, accept_errors, queue,
                   worker, started, outcome, failed_before>>

\* main.rs 84: ThreadPool::new(threads_max), which panics for 0 threads
CreatePool ==
    /\ main_pc = "pool"
    /\ main_pc' = IF SETTINGS.threads_max.value >= 1 THEN "accept" ELSE "exited"
    /\ UNCHANGED <<SETTINGS, lock, arrived, peer, backlog, stream, accept_errors, queue,
                   worker, started, outcome, failed_before>>

\* a client connects to the bound socket; it will send, close or fail
\* ("quiet", until it does), or stay silent for ever
Connect ==
    /\ main_pc \in {"pool", "accept", "submit"}
    /\ arrived < MaxConns
    /\ arrived' = arrived + 1
    /\ \E kind \in {"quiet", "silent"} : peer' = [peer EXCEPT ![arrived + 1] = kind]
    /\ backlog' = Append(backlog, arrived + 1)
    /\ UNCHANGED <<main_pc, SETTINGS, lock, stream, accept_errors, queue, worker, started,
                   outcome, failed_before>>

\* the client sends its request, closes, or the connection fails: any of
\* them lets a read of the stream return
PeerSends(c) ==
    /\ peer[c] = "quiet"
    /\ peer' = [peer EXCEPT ![c] = "sent"]
    /\ UNCHANGED <<main_pc, SETTINGS, lock, arrived, backlog, stream, accept_errors, queue,
                   worker, started, outcome, failed_before>>

\* main.rs 86-90: incoming() yields a stream
AcceptOk ==
    /\ main_pc = "accept"
    /\ backlog # <<>>
    /\ stream' = Head(backlog)
    /\ backlog' = Tail(backlog)
    /\ main_pc' = "submit"
    /\ failed_before' = (accept_errors >= 1)
    /\ UNCHANGED <<SETTINGS, lock, arrived, peer, accept_errors, queue, worker, started,
                   outcome>>

\* a plausible slip: a failed accept ends the loop
AcceptErrEndingLoop ==
    /\ main_pc = "accept"
    /\ accept_errors < MaxAcceptErrors
    /\ accept_errors' = accept_errors + 1
    /\ main_pc' = "exited"
    /\ UNCHANGED <<SETTINGS, lock, arrived, peer, backlog, stream, queue, worker, started,
                   outcome, failed_before>>

\* main.rs 91-94: incoming() yields an error; error! and continue
AcceptErr ==
    /\ main_pc = "accept"
    /\ accept_errors < MaxAcceptErrors
    /\ accept_errors' = accept_errors + 1
    /\ UNCHANGED <<main_pc, SETTINGS, lock, arrived, peer, backlog, stream, queue, worker,
                   started, outcome, failed_before>>

\* main.rs 96: pool.execute sends the job down the pool's channel, which
\* has no bound, and returns at once
Submit ==
    /\ main_pc = "submit"
    /\ queue' = Append(queue, stream)
    /\ stream' = NoStream
    /\ main_pc' = "accept"
    /\ UNCHANGED <<SETTINGS, lock, arrived, peer, backlog, accept_errors, worker, started,
                   outcome, failed_before>>

\* a plausible slip: the worker runs the job at the head of the channel and
\* leaves it there
TakeLeavingJobQueued(w) ==
    /\ w \in PoolWorkers
    /\ worker[w].pc = "idle"
    /\ queue # <<>>
    /\ worker' = [worker EXCEPT ![w] = [@ EXCEPT !.pc = "start", !.stream = Head(queue)]]
    /\ started' = [started EXCEPT ![Head(queue)] = Min(@ + 1, 2)]
    /\ UNCHANGED <<main_pc, SETTINGS, lock, arrived, peer, backlog, stream, accept_errors,
                   queue, outcome, failed_before>>

\* a worker of the pool between jobs receives the next job and calls it
\* (main.rs 96, the closure)
Take(w) ==
    /\ w \in PoolWorkers
    /\ worker[w].pc = "idle"
    /\ queue # <<>>
    /\ worker' = [worker EXCEPT ![w] = [@ EXCEPT !.pc = "start", !.stream = Head(queue)]]
    /\ queue' = Tail(queue)
    /\ started' = [started EXCEPT ![Head(queue)] = @ + 1]
    /\ UNCHANGED <<main_pc, SETTINGS, lock, arrived, peer, backlog, stream, accept_errors,
                   outcome, failed_before>>

\* lib.rs 355-366: the read guard is taken, which waits while a writer holds
\* the lock; webroot and request_max_bytes are read; a missing one makes the
\* handler return, which drops the guard and the stream
TakeSettings(w) ==
    /\ worker[w].pc = "start"
    /\ ~lock.writer
    /\ IF SETTINGS.webroot.some /\ SETTINGS.request_max_bytes.some
       THEN /\ worker' = [worker EXCEPT ![w] = [@ EXCEPT !.pc = "read", !.seen = SETTINGS]]
            /\ lock' = [lock EXCEPT !.readers = @ \cup {w}]
            /\ UNCHANGED outcome
       ELSE /\ worker' = [worker EXCEPT ![w] = IdleWorker]
            /\ outcome' = [outcome EXCEPT ![worker[w].stream] = "no response"]
            /\ UNCHANGED lock
    /\ UNCHANGED <<main_pc, SETTINGS, arrived, peer, backlog, stream, accept_errors, queue,
                   started, failed_before>>

\* a plausible slip: the read gives up after a while
ReadWithTimeout(w) ==
    /\ worker[w].pc = "read"
    /\ worker' = [worker EXCEPT ![w] = [@ EXCEPT !.pc = "respond"]]
    /\ UNCHANGED <<main_pc, SETTINGS, lock, arrived, peer, backlog, stream, accept_errors,
                   queue, started, outcome, failed_before>>

\* lib.rs 371: the one read, which returns when the client has sent, closed
\* or failed, and not before: the stream has no read timeout
BlockingRead(w) ==
    /\ worker[w].pc = "read"
    /\ peer[worker[w].stream] = "sent"
    /\ worker' = [worker EXCEPT ![w] = [@ EXCEPT !.pc = "respond"]]
    /\ UNCHANGED <<main_pc, SETTINGS, lock, arrived, peer, backlog, stream, accept_errors,
                   queue, started, outcome, failed_before>>

\* lib.rs 379-430: the half-close, the Response, the request log and send,
\* whose write succeeds or fails; then the handler returns, which drops the
\* read guard and the stream, and the worker waits for its next job
RespondAndReturn(w) ==
    /\ worker[w].pc = "respond"
    /\ \E sent_as \in {"answered", "write error"} :
           outcome' = [outcome EXCEPT ![worker[w].stream] = sent_as]
    /\ lock' = [lock EXCEPT !.readers = @ \ {w}]
    /\ worker' = [worker EXCEPT ![w] = IdleWorker]
    /\ UNCHANGED <<main_pc, SETTINGS, arrived, peer, backlog, stream, accept_errors, queue,
                   started, failed_before>>

(***************************************************************************)
(* Specifications.                                                         *)
(***************************************************************************)
vars == <<pvars, tvars, rvars, hvars, dvars>>

\* handle_connection run once on one connection
Init == HandlerInit /\ ParseIdle /\ ToVecIdle /\ ResourceIdle /\ DispatchIdle

Next ==
    \/ Configure /\ UNCHANGED <<pvars, tvars, rvars, dvars>>
    \/ Read /\ UNCHANGED <<pvars, tvars, rvars, dvars>>
    \/ ShutdownRead /\ UNCHANGED <<pvars, tvars, rvars, dvars>>
    \/ Analyze /\ UNCHANGED <<pvars, tvars, rvars, dvars>>
    \/ LogRequest /\ UNCHANGED <<pvars, tvars, rvars, dvars>>
    \/ Write /\ UNCHANGED <<pvars, tvars, rvars, dvars>>
    \/ Flush /\ UNCHANGED <<pvars, tvars, rvars, dvars>>

Spec == Init /\ [][Next]_vars

\* Request::parse applied once to any buffer of ParseBuffers
InitParse == ParseInit /\ ToVecIdle /\ ResourceIdle /\ HandlerIdle /\ DispatchIdle

NextParse == CallParse /\ UNCHANGED <<tvars, rvars, hvars, dvars>>

SpecParse == InitParse /\ [][NextParse]_vars

\* Response::to_vec applied once to any Response of ToVecInit
InitToVec == ToVecInit /\ ParseIdle /\ ResourceIdle /\ HandlerIdle /\ DispatchIdle

NextToVec == CallToVec /\ UNCHANGED <<pvars, rvars, hvars, dvars>>

SpecToVec == InitToVec /\ [][NextToVec]_vars

\* get_path and get_mime applied once to any resource of Resources
InitResource == ResourceInit /\ ParseIdle /\ ToVecIdle /\ HandlerIdle /\ DispatchIdle

NextResource == CallResource /\ UNCHANGED <<pvars, tvars, hvars, dvars>>

SpecResource == InitResource /\ [][NextResource]_vars

\* main, the accept loop and the pool, with up to MaxConns connections
InitDispatch == DispatchInit /\ ParseIdle /\ ToVecIdle /\ ResourceIdle /\ HandlerIdle

NextDispatch ==
    \/ LoadSettings /\ UNCHANGED <<pvars, tvars, rvars, hvars>>
    \/ ReleaseSettings /\ UNCHANGED <<pvars, tvars, rvars, hvars>>
    \/ Bind /\ UNCHANGED <<pvars, tvars, rvars, hvars>>
    \/ CreatePool /\ UNCHANGED <<pvars, tvars, rvars, hvars>>
    \/ Connect /\ UNCHANGED <<pvars, tvars, rvars, hvars>>
    \/ AcceptOk /\ UNCHANGED <<pvars, tvars, rvars, hvars>>
    \/ AcceptErr /\ UNCHANGED <<pvars, tvars, rvars, hvars>>
    \/ Submit /\ UNCHANGED <<pvars, tvars, rvars, hvars>>
    \/ \E c \in Conns : PeerSends(c) /\ UNCHANGED <<pvars, tvars, rvars, hvars>>
    \/ \E w \in Workers : Take(w) /\ UNCHANGED <<pvars, tvars, rvars, hvars>>
    \/ \E w \in Workers : TakeSettings(w) /\ UNCHANGED <<pvars, tvars, rvars, hvars>>
    \/ \E w \in Workers : BlockingRead(w) /\ UNCHANGED <<pvars, tvars, rvars, hvars>>
    \/ \E w \in Workers : RespondAndReturn(w) /\ UNCHANGED <<pvars, tvars, rvars, hvars>>

SpecDispatch == InitDispatch /\ [][NextDispatch]_vars

\* The same, with the main thread running: an accept that can succeed is
\* made, and pool.execute, which never waits, returns.
LiveSpecDispatch == SpecDispatch /\ WF_dvars(AcceptOk) /\ WF_dvars(Submit)

(***************************************************************************)
(* What the claims about Request::parse speak of, read off the buffer      *)
(* itself and not off the scan.                                            *)
(***************************************************************************)
\* the places (1-based) of CR and LF bytes
LineEnds(buf) == {i \in 1..Len(buf) : buf[i] = CR \/ buf[i] = LF}

HasLineEnd(buf) == LineEnds(buf) # {}

\* the place of the first CR or LF byte
FirstLineEnd(buf) == CHOOSE i \in LineEnds(buf) : \A j \in LineEnds(buf) : i <= j

\* the places of the space bytes before the first CR or LF byte
SpacesInLine(buf) ==
    {i \in 1..Len(buf) : buf[i] = SP /\ (HasLineEnd(buf) => i < FirstLineEnd(buf))}

FirstSpace(buf) == CHOOSE i \in SpacesInLine(buf) : \A j \in SpacesInLine(buf) : i <= j

SecondSpace(buf) ==
    CHOOSE i \in SpacesInLine(buf) \ {FirstSpace(buf)} :
        \A j \in SpacesInLine(buf) \ {FirstSpace(buf)} : i <= j

\* the three byte ranges the claim names
ClaimedMethod(buf) == SubSeq(buf, 1, FirstSpace(buf) - 1)
ClaimedResource(buf) == SubSeq(buf, FirstSpace(buf) + 1, SecondSpace(buf) - 1)
ClaimedVersion(buf) == SubSeq(buf, SecondSpace(buf) + 1, FirstLineEnd(buf) - 1)

\* a sequence of bytes that is valid UTF-8, by the shape of its sequences for
\* the bytes of ParseBytes: ASCII bytes, and 195 followed by 169
RECURSIVE ValidText(_)
ValidText(s) ==
    IF s = <<>> THEN TRUE
    ELSE IF s[1] < 128 THEN ValidText(Tail(s))
    ELSE Len(s) >= 2 /\ s[1] = 195 /\ s[2] = 169 /\ ValidText(Tail(Tail(s)))

\* C4: for every buffer with at least two spaces before its first CR or LF
\* byte and three valid UTF-8 ranges, parse succeeds and returns the bytes
\* before the first space, between the first and the second space, and
\* between the second space and the first CR/LF, exactly as found.
C4_ParseReturnsTheThreeTokens ==
    (/\ pCalled
     /\ HasLineEnd(pBuffer)
     /\ Cardinality(SpacesInLine(pBuffer)) >= 2
     /\ ValidText(ClaimedMethod(pBuffer))
     /\ ValidText(ClaimedResource(pBuffer))
     /\ ValidText(ClaimedVersion(pBuffer)))
    => /\ pResult.ok
       /\ pResult.request.method = ClaimedMethod(pBuffer)
       /\ pResult.request.resource = ClaimedResource(pBuffer)
       /\ pResult.request.http_version = ClaimedVersion(pBuffer)

\* C5: parse returns a 400 Response, never a Request, for every buffer with
\* no CR or LF byte and for every buffer with fewer than two spaces before
\* its first CR or LF byte.
C5_MalformedLineIs400 ==
    (pCalled /\ (~HasLineEnd(pBuffer) \/ Cardinality(SpacesInLine(pBuffer)) < 2))
    => /\ ~pResult.ok
       /\ pResult.request = NoRequest
       /\ pResult.response.code = 400

\* parse has rejected a buffer whose line ends after exactly one space
C5_Witness ==
    /\ pCalled
    /\ HasLineEnd(pBuffer)
    /\ FirstLineEnd(pBuffer) > 1
    /\ Cardinality(SpacesInLine(pBuffer)) = 1
    /\ ~pResult.ok
    /\ pResult.response.code = 400
(***************************************************************************)
(* What the claims about Response::to_vec speak of, read off the bytes     *)
(* to_vec returned.                                                        *)
(***************************************************************************)
\* the place of the blank line that ends the head: the first CR LF CR LF
HeadEnd(out) ==
    LET ends == {i \in 1..(Len(out) - 3) : SubSeq(out, i, i + 3) = <<CR, LF, CR, LF>>}
    IN  CHOOSE i \in ends : \A j \in ends : i <= j

HasHead(out) ==
    \E i \in 1..(Len(out) - 3) : SubSeq(out, i, i + 3) = <<CR, LF, CR, LF>>

\* the body as emitted: everything after the blank line
WireBody(out) == SubSeq(out, HeadEnd(out) + 4, Len(out))

\* the lines of the head, each without its CR LF
RECURSIVE SplitLines(_)
SplitLines(h) ==
    LET ends == {i \in 1..(Len(h) - 1) : h[i] = CR /\ h[i + 1] = LF}
    IN  IF ends = {} THEN <<h>>
        ELSE LET at == CHOOSE i \in ends : \A j \in ends : i <= j
             IN  <<SubSeq(h, 1, at - 1)>> \o SplitLines(SubSeq(h, at + 2, Len(h)))

WireLines(out) == SplitLines(SubSeq(out, 1, HeadEnd(out) - 1))

StartsWith(s, prefix) == Len(s) >= Len(prefix) /\ SubSeq(s, 1, Len(prefix)) = prefix

\* the value of a header line "<name>: <value>;"
HeaderValue(line, name) == SubSeq(line, Len(name) + 1, Len(line) - 1)

IsHeader(line, name) ==
    StartsWith(line, name) /\ Len(line) > Len(name) /\ line[Len(line)] = 59

IsDecimal(d) == d # <<>> /\ \A i \in 1..Len(d) : d[i] >= 48 /\ d[i] <= 57

RECURSIVE FromDec(_)
FromDec(d) ==
    IF d = <<>> THEN 0 ELSE 10 * FromDec(SubSeq(d, 1, Len(d) - 1)) + (d[Len(d)] - 48)

\* the reason phrase the status line must carry
ReasonOf(code) ==
    IF code \in DOMAIN HTTP_RESPONSE_TABLE THEN HTTP_RESPONSE_TABLE[code]
    ELSE <<85, 110, 107, 110, 111, 119, 110>>

\* "<code> <reason>"
StatusOf(code) == ToDec(code) \o <<SP>> \o ReasonOf(code)

InSuccessRange(code) == code >= 200 /\ code < 300

\* C6: to_vec emits exactly the status line "HTTP/1.1 <code> <reason>", a
\* Content-Type header, a Content-Length header, a blank line and the body,
\* with no other header, and the Content-Length value is the exact byte
\* length of the body emitted, also when the body is the rendered error page.
C6_WireFormatAndLength ==
    tCalled =>
        /\ HasHead(tOut)
        /\ Len(WireLines(tOut)) = 3
        /\ WireLines(tOut)[1] = WireHttp \o StatusOf(tResponse.code)
        /\ IsHeader(WireLines(tOut)[2], WireContentType)
        /\ IsHeader(WireLines(tOut)[3], WireContentLength)
        /\ IsDecimal(HeaderValue(WireLines(tOut)[3], WireContentLength))
        /\ FromDec(HeaderValue(WireLines(tOut)[3], WireContentLength))
               = Len(WireBody(tOut))
        /\ HeaderValue(WireLines(tOut)[3], WireContentLength) = ToDec(Len(WireBody(tOut)))

\* to_vec has emitted an error page whose length differs from that of the
\* Response's own body
C6_Witness ==
    /\ tCalled
    /\ ~InSuccessRange(tResponse.code)
    /\ tResponse.body # <<>>
    /\ Len(WireBody(tOut)) # Len(tResponse.body)
    /\ FromDec(HeaderValue(WireLines(tOut)[3], WireContentLength)) = Len(WireBody(tOut))

\* the template the claim names: error.html, or the built-in page when the
\* file cannot be read as text
TemplateOf(file) ==
    IF file.readable /\ ValidText(file.content) THEN file.content ELSE DefaultErrorPage

\* the places of the placeholders of a template; two cannot overlap
PlaceholdersOf(t) == {i \in 1..(Len(t) - 1) : t[i] = 123 /\ t[i + 1] = 125}

\* the k-th smallest element of a set of numbers
Kth(S, k) == CHOOSE x \in S : Cardinality({y \in S : y < x}) = k - 1

\* the body text as the error detail
DetailOf(body) == IF ValidText(body) THEN body ELSE from_utf8_lossy(body)

\* the template with its first two placeholders filled with the status text
\* and its third with the detail, each where the template has that many
ExpectedPage(t, status, detail) ==
    LET P == PlaceholdersOf(t)
        n == Cardinality(P)
        upTo(k) == SubSeq(t, (IF k = 1 THEN 1 ELSE Kth(P, k - 1) + 2), Kth(P, k) - 1)
        rest(k) == SubSeq(t, Kth(P, k) + 2, Len(t))
    IN  IF n = 0 THEN t
        ELSE IF n = 1 THEN upTo(1) \o status \o rest(1)
        ELSE IF n = 2 THEN upTo(1) \o status \o upTo(2) \o status \o rest(2)
        ELSE upTo(1) \o status \o upTo(2) \o status \o upTo(3) \o detail \o rest(3)

\* C7: for a code in [200, 300) the emitted body is the Response's body
\* unchanged; for any other code it is the error-page template (error.html,
\* or the built-in page when the file cannot be read) with its first two
\* placeholders replaced by "<code> <reason>" and the next one by the
\* Response's body text, never the Response's body passed through.
C7_BodyOrRenderedErrorPage ==
    tCalled =>
        /\ HasHead(tOut)
        /\ InSuccessRange(tResponse.code) => WireBody(tOut) = tResponse.body
        /\ ~InSuccessRange(tResponse.code) =>
               WireBody(tOut) = ExpectedPage(TemplateOf(tErrorHtml),
                                             StatusOf(tResponse.code),
                                             DetailOf(tResponse.body))

\* to_vec has rendered an error.html with three or more placeholders for a
\* Response with a body
C7_Witness ==
    /\ tCalled
    /\ ~InSuccessRange(tResponse.code)
    /\ tErrorHtml.readable
    /\ Cardinality(PlaceholdersOf(tErrorHtml.content)) >= 3
    /\ tResponse.body # <<>>
    /\ WireBody(tOut) # tResponse.body

\* C8: for a code outside [200, 300) the Content-Type header is text/html
\* whatever the Response's mime field holds; for a code in [200, 300) it is
\* the Response's mime field.
C8_ContentTypeForcedForErrors ==
    tCalled =>
        HeaderValue(WireLines(tOut)[2], WireContentType)
            = (IF InSuccessRange(tResponse.code) THEN tResponse.mime ELSE TextHtml)

(***************************************************************************)
(* What the claims about ResourcePath speak of.                            *)
(***************************************************************************)
\* the resource with a separator in the leading position removed
WithoutLeadingSeparator(resource) ==
    IF resource # <<>> /\ resource[1] = Slash THEN Tail(resource) ELSE resource

\* C9: get_path returns the webroot, a separator and the resource with
\* exactly one leading separator removed: only a separator in the leading
\* position is stripped, every other byte is kept, and a resource with no
\* leading separator is appended unchanged.
C9_GetPathStripsLeadingSeparatorOnly ==
    rCalled => rPath = rWebroot \o <<Slash>> \o WithoutLeadingSeparator(rResource)
(***************************************************************************)
(* What the claims about handle_connection speak of.                       *)
(***************************************************************************)
\* the handler has returned, on either way out
Finished == pc \in {"done", "returned"}

\* the Response has been determined
Determined == pc \in {"log", "write", "flush", "done"}

\* the operations in the order the claim gives, and the flush of send
OperationsInOrder == <<"read", "shutdown", "respond", "log", "write", "flush">>

IsPrefix(s, t) == Len(s) <= Len(t) /\ SubSeq(t, 1, Len(s)) = s

\* C1: in every execution of handle_connection the operations occur in this
\* order: exactly one read attempt, then the half-close of the read side,
\* then the determination of the response, then the request-log line, then
\* the write; nothing is written before the half-close.
C1_OperationsOccurInOrder ==
    /\ IsPrefix(events, OperationsInOrder)
    /\ wire.called => \E i \in 1..Len(events) : events[i] = "shutdown"
    /\ Finished => events = OperationsInOrder

\* the limit the handler read from the settings
Limit == settings.request_max_bytes.value

\* the Request the parser returns for the buffer, when it returns one
Parsed == parse(buffer)

\* the place of the first condition of the claim's list that applies:
\* 1 read error, 2 size limit, 3 malformed line or token, 4 method,
\* 5 version, 6 file, 7 none
FirstCondition ==
    IF ~request_result.ok THEN 1
    ELSE IF request_result.num_bytes >= Limit THEN 2
    ELSE IF ~Parsed.ok THEN 3
    ELSE IF Parsed.request.method # GET THEN 4
    ELSE IF Parsed.request.http_version # HTTP_1_1 THEN 5
    ELSE IF target.path \notin disk THEN 6
    ELSE 7

CodeOfCondition == <<400, 413, 400, 501, 505, 404, 200>>

\* C2: the response code is fixed by the first condition that applies, in
\* the order read error 400, size limit 413, malformed line or non-UTF-8
\* token 400, method other than GET 501, version other than HTTP/1.1 505,
\* file read failure 404, otherwise 200; the target file is read only when
\* all earlier conditions pass; no other code is produced.
C2_FirstConditionFixesTheCode ==
    Determined =>
        /\ response.code = CodeOfCondition[FirstCondition]
        /\ target.looked_up <=> FirstCondition >= 6
        /\ target.looked_up <=> file_reads # <<>> /\ file_reads[1] = target.path
        /\ response.code \in {200, 400, 404, 413, 501, 505}
        /\ request_log # <<>> => request_log[1].code = response.code

\* a request that is both not GET and not HTTP/1.1 has been answered 501
C2_Witness ==
    /\ Determined
    /\ Parsed.ok
    /\ Parsed.request.method # GET
    /\ Parsed.request.http_version # HTTP_1_1
    /\ FirstCondition = 4
    /\ response.code = 501

\* C3: with a buffer of request_max_bytes + 1 bytes, a read that returns
\* request_max_bytes bytes or more gives 413 with an empty detail body,
\* whatever the buffer holds, and the parser is not run; a read that returns
\* fewer bytes never gives 413.
C3_SizeLimit ==
    (Determined /\ request_result.ok) =>
        /\ Len(buffer) = Limit + 1
        /\ request_result.num_bytes >= Limit =>
               /\ response.code = 413
               /\ response.body = <<>>
               /\ parse_calls = 0
        /\ request_result.num_bytes < Limit => response.code # 413

\* a read that returned exactly request_max_bytes bytes, a whole
\* request line among them, has been answered 413
C3_Witness ==
    /\ Determined
    /\ request_result.ok
    /\ Limit > 0
    /\ request_result.num_bytes = Limit
    /\ \E i \in 1..Len(buffer) : buffer[i] = LF
    /\ response.code = 413
    /\ parse_calls = 0

\* the extension as the spec words it: what follows the last '.' of the
\* last piece of the resource, nothing when that piece has no '.'
LastPiece(resource) == Segments(resource)[Len(Segments(resource))]

SpecExtension(resource) ==
    LET piece == LastPiece(resource)
        dots == {i \in 1..Len(piece) : piece[i] = Dot}
    IN  IF dots = {} THEN <<>>
        ELSE SubSeq(piece, (CHOOSE i \in dots : \A j \in dots : j <= i) + 1, Len(piece))

\* a supported request has passed the size limit and the parser
SupportedRequest ==
    /\ Determined
    /\ request_result.ok
    /\ request_result.num_bytes < Limit
    /\ Parsed.ok
    /\ Parsed.request.method = GET
    /\ Parsed.request.http_version = HTTP_1_1

\* C10: a resource whose extension has no exact entry in the MIME table, or
\* that has no extension, resolves to text/plain, and the response code is
\* still 200 when the file is readable and 404 when it is not.
C10_UnknownExtensionIsTextPlain ==
    (SupportedRequest /\ SpecExtension(Parsed.request.resource) \notin DOMAIN MIME_BY_EXTENSION)
    => /\ target.looked_up
       /\ target.mime = TextPlain
       /\ target.path \in disk =>
              response = [code |-> 200, mime |-> TextPlain, body |-> FileAt(target.path).content]
       /\ target.path \notin disk => response.code = 404

\* a readable file whose extension differs from a table entry only by case
\* has been served as text/plain
C10_Witness ==
    /\ SupportedRequest
    /\ SpecExtension(Parsed.request.resource) = <<74, 80, 71>>
    /\ target.path \in disk
    /\ response.code = 200
    /\ response.mime = TextPlain

(***************************************************************************)
(* The cursors of Request::parse and its slices.                           *)
(***************************************************************************)
\* the range [from, to) is one Rust can slice out of s without a panic
InBounds(s, from, to) == from <= to /\ to <= Len(s)

\* parse went past the test of line 82, to the extraction of the tokens
ReachesExtraction(buf) == ~Malformed(Cursors(buf))

\* C19: whenever parse reaches token extraction the cursors satisfy
\* 0 < index_end_method < index_end_resource < index_end_line < buffer
\* length, so the three slice ranges are in bounds and well ordered and
\* parse does not panic; parse returns either a Request or a 400 Response.
C19_CursorsOrderedAndInBounds ==
    pCalled =>
        LET c == Cursors(pBuffer)
        IN  /\ ReachesExtraction(pBuffer) =>
                   /\ 0 < c.index_end_method
                   /\ c.index_end_method < c.index_end_resource
                   /\ c.index_end_resource < c.index_end_line
                   /\ c.index_end_line < Len(pBuffer)
                   /\ InBounds(pBuffer, 0, c.index_end_method)
                   /\ InBounds(pBuffer, c.index_end_method + 1, c.index_end_resource)
                   /\ InBounds(pBuffer, c.index_end_resource + 1, c.index_end_line)
            /\ \/ pResult.ok /\ pResult.request # NoRequest /\ pResult.response = NoResponse
               \/ ~pResult.ok /\ pResult.request = NoRequest /\ pResult.response.code = 400

\* parse has reached token extraction with an empty resource slice and a
\* method that is not UTF-8, and has returned a 400 Response
C19_Witness ==
    /\ pCalled
    /\ ReachesExtraction(pBuffer)
    /\ Cursors(pBuffer).index_end_resource = Cursors(pBuffer).index_end_method + 1
    /\ ~from_utf8(Slice(pBuffer, 0, Cursors(pBuffer).index_end_method)).ok
    /\ ~pResult.ok
    /\ pResult.response.code = 400

(***************************************************************************)
(* The ways out of handle_connection, and Response::send.                  *)
(***************************************************************************)
\* how often an operation occurs among the events
Count(op) == Cardinality({i \in 1..Len(events) : events[i] = op})

\* how often a line occurs in what error! logged
Logged(line) == Cardinality({i \in 1..Len(error_log) : error_log[i] = line})

\* C14: on every path through handle_connection the handler determines
\* exactly one Response, writes exactly one request-log line carrying its
\* code and makes exactly one send attempt with it; it never returns without
\* having logged the request and attempted to send a response.
C14_EveryPathLogsAndSends ==
    Finished =>
        /\ Count("respond") = 1
        /\ response # NoResponse
        /\ Len(request_log) = 1
        /\ request_log[1].code = response.code
        /\ Count("write") = 1
        /\ wire.called
        /\ wire.offered = to_vec(response, errorHtml)

\* C15: send issues exactly one write call with the serialized response and
\* then exactly one flush call; a write error is logged once and nothing
\* else follows from it: no second write, the flush still made, and the
\* handler returns to the worker that called it.
C15_OneWriteThenOneFlush ==
    /\ Count("write") <= 1 /\ Count("flush") <= 1
    /\ wire.called <=> Count("write") = 1
    /\ wire.called => /\ wire.offered = to_vec(response, errorHtml)
                      /\ pc \in {"flush", "done"}
                      /\ Logged("Write error") = (IF wire.ok THEN 0 ELSE 1)
    /\ Count("flush") = 1 =>
           /\ pc = "done"
           /\ wire.called
           /\ events[Len(events)] = "flush"
           /\ events[Len(events) - 1] = "write"
    /\ pc = "done" => Count("write") = 1 /\ Count("flush") = 1

\* send has returned after a write that failed: the error is logged, the
\* flush was made, nothing reached the connection
C15_Witness ==
    /\ pc = "done"
    /\ wire.called
    /\ ~wire.ok
    /\ wire.accepted = <<>>
    /\ Logged("Write error") = 1
    /\ Count("write") = 1
    /\ Count("flush") = 1

\* C18: whenever send completes with neither the write nor the flush
\* reporting an error, the whole serialized response has been handed to the
\* connection: status line, both headers and every byte of the body.
C18_WholeResponseHandedOver ==
    (pc = "done" /\ wire.ok) => wire.accepted = to_vec(response, errorHtml)

(***************************************************************************)
(* What the claims about the dispatcher speak of.                          *)
(***************************************************************************)
\* the accept loop is running
Listening == main_pc \in {"accept", "submit"}

\* the workers whose handle_connection is executing
Busy == {w \in Workers : worker[w].pc # "idle"}

\* the connections whose handle_connection is executing
Executing == {worker[w].stream : w \in Busy}

\* the connections waiting in the pool's channel
Queued == {queue[i] : i \in 1..Len(queue)}

\* threadsMax
threadsMax == SETTINGS.threads_max.value

\* C11: at most threadsMax connections have their handle_connection
\* executing; a worker runs one handler to completion before it takes
\* another connection; no connection is handled by more than one worker or
\* more than once.
C11_BoundedPoolOneHandlerPerConnection ==
    /\ [](/\ Cardinality(Busy) <= (IF Listening THEN threadsMax ELSE 0)
          /\ Cardinality(Executing) = Cardinality(Busy)
          /\ \A c \in Conns : started[c] <= 1
          /\ \A c \in Executing : started[c] = 1 /\ c \notin Queued /\ outcome[c] = "none")
    /\ [][\A w \in Busy :
              \/ worker'[w].stream = worker[w].stream
              \/ worker'[w] = IdleWorker /\ outcome'[worker[w].stream] # "none"]_vars

\* every worker of a pool of two or more is executing a handler, each on its
\* own connection, and a further connection waits
C11_Witness ==
    /\ Listening
    /\ threadsMax >= 2
    /\ Cardinality(Busy) = threadsMax
    /\ Cardinality(Executing) = threadsMax
    /\ queue # <<>>

\* the connections accepted and still open: held by the accept loop, waiting
\* in the pool's channel, or in a handler
AcceptedOpen == (IF stream = NoStream THEN {} ELSE {stream}) \cup Queued \cup Executing

\* C12: while all threadsMax workers are busy the dispatcher holds no
\* accepted connection that is not being handled: pending connections wait
\* only in the backlog of the listening socket, so the accepted connections
\* still open never number more than threadsMax.
C12_NoQueueBeyondTheBacklog ==
    (Listening /\ Cardinality(Busy) = threadsMax) =>
        /\ queue = <<>>
        /\ stream = NoStream
        /\ Cardinality(AcceptedOpen) <= threadsMax

\* the connections the accept loop has handed to the pool
Submitted == {c \in Conns : c \in Queued \/ started[c] >= 1}

\* C13: once the accept loop runs it never ends on its own; a failed accept
\* is skipped with no handler submitted for it and the loop goes on to the
\* next accept; every connection accepted, after a failed accept too, is
\* submitted to the pool: none is lost, and the backlog and the loop's hands
\* are emptied in the end; the loop performs no request I/O.
C13_AcceptLoopNeverEnds ==
    /\ [][Listening => Listening']_vars
    /\ [][accept_errors' # accept_errors =>
              /\ main_pc = "accept" /\ main_pc' = "accept"
              /\ queue' = queue /\ stream' = stream /\ backlog' = backlog
              /\ started' = started]_vars
    /\ [][(main_pc = "submit" /\ main_pc' # "submit") =>
              /\ main_pc' = "accept"
              /\ queue' = Append(queue, stream)]_vars
    /\ [][(main_pc' # main_pc \/ accept_errors' # accept_errors) =>
              /\ worker' = worker /\ outcome' = outcome /\ peer' = peer]_vars
    /\ [](Listening =>
              \A c \in 1..arrived :
                  \/ \E i \in 1..Len(backlog) : backlog[i] = c
                  \/ stream = c
                  \/ c \in Submitted)
    /\ (Listening /\ (backlog # <<>> \/ stream # NoStream))
           ~> (Listening /\ backlog = <<>> /\ stream = NoStream)

\* the connection accepted last, after an accept had failed, is with the
\* pool
C13_Witness ==
    /\ Listening
    /\ accept_errors >= 1
    /\ failed_before
    /\ stream = NoStream
    /\ Submitted # {}

\* the workers whose handler stands at SETTINGS.read()
AtSettingsRead == {w \in Workers : worker[w].pc = "start"}

\* what a handler reads from the settings
Observed(w) == [webroot |-> worker[w].seen.webroot,
                request_max_bytes |-> worker[w].seen.request_max_bytes]

\* C16: the write lock on the settings is held only during startup and is
\* released before the first accept; afterwards handlers take only the read
\* lock and nothing writes the settings, so no handler waits for the lock,
\* not even while other handlers hold it for as long as a slow connection
\* lasts, and all handlers observe the same webroot and request_max_bytes.
C16_SettingsReadOnlyAfterStartup ==
    /\ [](lock.writer =>
              /\ main_pc = "loaded"
              /\ stream = NoStream /\ queue = <<>> /\ Busy = {}
              /\ \A c \in Conns : started[c] = 0)
    /\ [](Listening => ~lock.writer)
    /\ [][Listening => SETTINGS' = SETTINGS /\ ~lock'.writer]_vars
    /\ [](AtSettingsRead # {} => ~lock.writer)
    /\ [](/\ lock.readers = {w \in Workers : worker[w].pc \in {"read", "respond"}}
          /\ \A w \in lock.readers :
                 /\ worker[w].seen = SETTINGS
                 /\ \A v \in lock.readers : Observed(v) = Observed(w))

\* two handlers hold the read lock at once, one of them blocked in the read
\* of a client that stays silent
C16_Witness ==
    /\ Listening
    /\ Cardinality(lock.readers) >= 2
    /\ \E w \in lock.readers :
           worker[w].pc = "read" /\ peer[worker[w].stream] = "silent"
    /\ \E w \in lock.readers : worker[w].pc = "respond"

\* every worker of the pool is blocked in the read of a client that stays
\* silent
HeldBySilentClients ==
    /\ Listening
    /\ \A w \in PoolWorkers :
           worker[w].pc = "read" /\ peer[worker[w].stream] = "silent"

\* C17: there is no timeout and no cancellation: a handler blocked in its
\* read stays there until the client sends, closes or the read fails, and
\* nothing else frees its worker; so once threadsMax connections are held by
\* clients that stay silent, they stay held and no further connection is
\* ever handled.
C17_NoTimeoutSilentClientsHoldThePool ==
    /\ [][\A w \in Workers :
              (worker[w].pc = "read" /\ peer[worker[w].stream] # "sent")
                  => worker'[w] = worker[w]]_vars
    /\ [][\A c \in Conns : peer[c] = "silent" => peer'[c] = "silent"]_vars
    /\ [][HeldBySilentClients => HeldBySilentClients' /\ started' = started]_vars

\* both workers of a pool of two are held by silent clients, and a
\* connection that arrived later waits in the pool's channel, not handled
C17_Witness ==
    /\ HeldBySilentClients
    /\ threadsMax >= 2
    /\ queue # <<>>
    /\ \A i \in 1..Len(queue) : started[queue[i]] = 0


=============================================================================
